---- MODULE Spec2Model ----
(***************************************************************************)
(* A model of arbitrage_core.py: the resilient fetcher get(), the category *)
(* discoverer, the profit estimator and the orchestrator                   *)
(* find_opportunities().                                                   *)
(*                                                                         *)
(* Representation.  Money is an integer number of 1/10000 pound (so 22.00  *)
(* is 220000), a rate is an integer percentage (0.13 is 13).  With prices  *)
(* of at most two decimals every product total * rate is a multiple of     *)
(* 100, so the arithmetic below is exact.  Python's None is the empty      *)
(* tuple, a present value v the 1-tuple <<v>>.  A URL is the integer rank  *)
(* of its last path segment in lexicographic order.                        *)
(***************************************************************************)
EXTENDS Integers, Sequences, FiniteSets, TLC

VARIABLES
    \* get(url)
    attempt, requests, last_exc, delays, get_pc, last_failure,
    \* estimate_profit
    est,
    \* discover_best_seller_categories
    max_categories, root_fetch, anchors, anchor_i, found, disc_result, disc_pc,
    \* find_opportunities
    cfg, cat, examined, rows, last, calls, error, pc,
    \* two runs of find_opportunities over the same inputs
    mono,
    \* scrape_amazon_bestsellers
    scrape,
    \* scrape_ebay_best_price
    ebay

getVars  == <<attempt, requests, last_exc, delays, get_pc, last_failure>>
discVars == <<max_categories, root_fetch, anchors, anchor_i, found, disc_result, disc_pc>>
scanVars == <<cfg, cat, examined, rows, last, calls, error, pc>>
vars     == <<getVars, est, discVars, scanVars, mono, scrape, ebay>>

None    == << >>
Some(v) == <<v>>
IsNone(x) == x = None
Val(x)  == x[1]

(***************************************************************************)
(* get(url): retry loop                                                    *)
(***************************************************************************)
MAX_RETRIES  == 6
BACKOFF_BASE == 2

RetryableStatus == {429, 503, 502, 520, 522, 524}

\* What one requests.get call can do: answer with a status, or raise a
\* requests.RequestException before any status is seen (status 0).
Statuses == {200, 403, 404, 429, 500, 503}
Outcomes == [status : Statuses, exc : {"none"}]
              \cup [status : {0}, exc : {"ConnectionError", "Timeout"}]

NoException == [type |-> "None", status |-> 0, attempt |-> 0]
HTTPError(status, k)   == [type |-> "HTTPError", status |-> status, attempt |-> k]
NetworkError(name, k)  == [type |-> name, status |-> 0, attempt |-> k]

\* resp.raise_for_status(): an HTTPError for 4xx and 5xx, nothing otherwise.
RaisesForStatus(status) == status >= 400 /\ status < 600

\* An attempt fails when get does not return its response.
Failed(o) == o.exc # "none" \/ o.status \in RetryableStatus \/ RaisesForStatus(o.status)

\* Why attempt k failed: the status answered, or the exception raised.
Reason(o, k) == [attempt |-> k, status |-> o.status, exc |-> o.exc]
NoFailure    == [attempt |-> 0, status |-> 0, exc |-> "none"]

InitGetVars ==
    /\ attempt = 1
    /\ requests = 0
    /\ last_exc = NoException
    /\ delays = << >>
    /\ get_pc = "loop"
    /\ last_failure = NoFailure

\* The except clause: last_exc = e; time.sleep(BACKOFF_BASE * attempt).
Except(e) ==
    /\ last_exc' = e
    /\ delays' = Append(delays, BACKOFF_BASE * attempt)

\* Variant: a retryable status is retried without using up an attempt.
RetryableBranch_NoPenalty(o) ==
    /\ delays' = Append(delays, BACKOFF_BASE * attempt)
    /\ last_exc' = last_exc
    /\ attempt' = attempt
    /\ get_pc' = "loop"

\* A retryable status: sleep and continue, last_exc is left alone.
RetryableBranch(o) ==
    /\ delays' = Append(delays, BACKOFF_BASE * attempt)
    /\ last_exc' = last_exc
    /\ attempt' = attempt + 1
    /\ get_pc' = "loop"

\* Status 403: sleep, continue unless this is the final attempt; on the
\* final attempt fall through to raise_for_status, whose HTTPError is
\* caught by the except clause (a second sleep).
ForbiddenBranch(o) ==
    IF attempt < MAX_RETRIES
    THEN /\ delays' = Append(delays, BACKOFF_BASE * attempt)
         /\ last_exc' = last_exc
         /\ attempt' = attempt + 1
         /\ get_pc' = "loop"
    ELSE /\ last_exc' = HTTPError(o.status, attempt)
         /\ delays' = delays \o <<BACKOFF_BASE * attempt, BACKOFF_BASE * attempt>>
         /\ attempt' = attempt + 1
         /\ get_pc' = "loop"

\* One iteration of "for attempt in range(1, MAX_RETRIES + 1)".
GetAttempt ==
    /\ get_pc = "loop"
    /\ attempt <= MAX_RETRIES
    /\ \E o \in Outcomes :
        /\ requests' = requests + 1
        /\ last_failure' = IF Failed(o) THEN Reason(o, attempt) ELSE last_failure
        /\ IF o.exc # "none"
           THEN Except(NetworkError(o.exc, attempt))
                /\ attempt' = attempt + 1 /\ get_pc' = "loop"
           ELSE IF o.status \in RetryableStatus
           THEN RetryableBranch(o)
           ELSE IF o.status = 403
           THEN ForbiddenBranch(o)
           ELSE IF RaisesForStatus(o.status)
           THEN Except(HTTPError(o.status, attempt))
                /\ attempt' = attempt + 1 /\ get_pc' = "loop"
           ELSE \* return resp
                /\ get_pc' = "returned"
                /\ UNCHANGED <<attempt, last_exc, delays>>
    /\ UNCHANGED <<est, discVars, scanVars, mono, scrape, ebay>>

\* The loop is over: raise FetchError(... last_exc).
GetExhausted ==
    /\ get_pc = "loop"
    /\ attempt > MAX_RETRIES
    /\ get_pc' = "raised"
    /\ UNCHANGED <<attempt, requests, last_exc, delays, last_failure>>
    /\ UNCHANGED <<est, discVars, scanVars, mono, scrape, ebay>>

(***************************************************************************)
(* estimate_profit                                                         *)
(***************************************************************************)
NoneTriple == <<None, None, None>>

\* Python truthiness of a number.
Truthy(n) == n # 0

\* A margin profit / total is kept as the exact fraction.
Ratio(num, den) == [num |-> num, den |-> den]

\* Returns <<ebay_total_price, fee, profit>>.  The last line of the function
\* parses as (ebay_total_price, fee, (profit if margin is not None else
\* (None, None, None))): with a zero total the third component is a tuple.
EstimateProfit(amazon_price, ebay_price, ebay_shipping, fee_rate, fixed_fee) ==
    IF IsNone(amazon_price) \/ IsNone(ebay_price)
    THEN <<None, None, None>>
    ELSE LET ebay_total_price == Val(ebay_price) + ebay_shipping
             fee    == (ebay_total_price * fee_rate) \div 100 + fixed_fee
             profit == ebay_total_price - Val(amazon_price) - fee
             margin == IF Truthy(ebay_total_price)
                       THEN Some(Ratio(profit, ebay_total_price))
                       ELSE None
         IN  <<Some(ebay_total_price), Some(fee),
               IF ~IsNone(margin) THEN Some(profit) ELSE NoneTriple>>

\* Inputs of the estimator: amounts with at most two decimals, absent prices.
SourcePrices == {None, Some(0), Some(84000), Some(100000)}
TargetPrices == {None, Some(0), Some(100000), Some(200000)}
Shippings    == {0, 20000}
FeeRates     == {0, 13}
FixedFees    == {0, 3000}

EstInputs == [amazon_price : SourcePrices, ebay_price : TargetPrices,
              ebay_shipping : Shippings, fee_rate : FeeRates, fixed_fee : FixedFees]

IdleEst == [args |-> [amazon_price |-> None, ebay_price |-> None, ebay_shipping |-> 0,
                      fee_rate |-> 0, fixed_fee |-> 0],
            called |-> FALSE, out |-> None]

\* A call of estimate_profit on the drawn arguments.
Estimate ==
    /\ ~est.called
    /\ est' = [est EXCEPT !.called = TRUE,
                          !.out = EstimateProfit(est.args.amazon_price, est.args.ebay_price,
                                                 est.args.ebay_shipping, est.args.fee_rate,
                                                 est.args.fixed_fee)]
    /\ UNCHANGED <<getVars, discVars, scanVars, mono, scrape, ebay>>

(***************************************************************************)
(* discover_best_seller_categories                                         *)
(***************************************************************************)
\* electronics, kitchen, computers, garden, sports, toys, health, beauty,
\* diy, automotive: each by the alphabet position of its first letter, which
\* orders these URLs as Python's string comparison does.
DEFAULT_SEED_CATEGORIES == <<5, 11, 3, 7, 19, 20, 8, 2, 4, 1>>

Min(a, b) == IF a < b THEN a ELSE b
Max(a, b) == IF a > b THEN a ELSE b

\* Python's s[:n].
SliceTo(s, n) ==
    IF n >= 0 THEN SubSeq(s, 1, Min(n, Len(s)))
    ELSE SubSeq(s, 1, Max(Len(s) + n, 0))

Range(s) == {s[i] : i \in DOMAIN s}

\* sorted(S) of a set of URLs.
RECURSIVE SortedSeq(_)
SortedSeq(S) ==
    IF S = {} THEN << >>
    ELSE LET m == CHOOSE x \in S : \A y \in S : x <= y
         IN  <<m>> \o SortedSeq(S \ {m})

\* An anchor selected by a[href*='/gp/bestsellers/']: its resolved URL is
\* /gp/bestsellers/<seg> or, when deep, /gp/bestsellers/<seg>/<more>.
MaxAnchors  == 3
MaxCategoriesArg == 3
AnchorSegs  == {2, 6, 13}
AnchorHrefs == [seg : AnchorSegs, deep : BOOLEAN]

\* re.search(r"/gp/bestsellers/[^/]+/?$", path)
IsCategoryPath(href) == ~href.deep

InitDiscVars ==
    /\ root_fetch = "pending"
    /\ anchors = << >>
    /\ anchor_i = 1
    /\ found = {}
    /\ disc_result = << >>
    /\ disc_pc = "fetch"

\* Variant: no except clause, the FetchError leaves the function.
DiscoverFetchFail_Propagates ==
    /\ disc_pc = "fetch"
    /\ root_fetch' = "FetchError"
    /\ disc_pc' = "raised"
    /\ UNCHANGED <<max_categories, anchors, anchor_i, found, disc_result>>
    /\ UNCHANGED <<getVars, est, scanVars, mono, scrape, ebay>>

\* except FetchError: found.update(DEFAULT_SEED_CATEGORIES[:max_categories])
DiscoverFetchFail ==
    /\ disc_pc = "fetch"
    /\ found' = found \cup Range(SliceTo(DEFAULT_SEED_CATEGORIES, max_categories))
    /\ root_fetch' = "FetchError"
    /\ disc_pc' = "return"
    /\ UNCHANGED <<max_categories, anchors, anchor_i, disc_result>>
    /\ UNCHANGED <<getVars, est, scanVars, mono, scrape, ebay>>

\* Sequences over S of length at most n.
SeqsUpTo(S, n) == UNION {[1..k -> S] : k \in 0..n}

\* resp = get(AMAZON_BEST_ROOT) returned; anchors = soup.select(...).
DiscoverFetchOk ==
    /\ disc_pc = "fetch"
    /\ \E as \in SeqsUpTo(AnchorHrefs, MaxAnchors) : anchors' = as
    /\ anchor_i' = 1
    /\ root_fetch' = "ok"
    /\ disc_pc' = "anchors"
    /\ UNCHANGED <<max_categories, found, disc_result>>
    /\ UNCHANGED <<getVars, est, scanVars, mono, scrape, ebay>>

\* Variant: the loop without its break.
DiscoverAnchor_NoBreak ==
    /\ disc_pc = "anchors"
    /\ anchor_i <= Len(anchors)
    /\ found' = IF IsCategoryPath(anchors[anchor_i])
                THEN found \cup {anchors[anchor_i].seg} ELSE found
    /\ disc_pc' = "anchors"
    /\ anchor_i' = anchor_i + 1
    /\ UNCHANGED <<max_categories, root_fetch, anchors, disc_result>>
    /\ UNCHANGED <<getVars, est, scanVars, mono, scrape, ebay>>

\* One iteration of "for a in anchors": add a category URL, break once
\* len(found) >= max_categories.
DiscoverAnchor ==
    /\ disc_pc = "anchors"
    /\ anchor_i <= Len(anchors)
    /\ LET href == anchors[anchor_i]
       IN  IF IsCategoryPath(href)
           THEN /\ found' = found \cup {href.seg}
                /\ disc_pc' = IF Cardinality(found') >= max_categories
                              THEN "endloop" ELSE "anchors"
           ELSE /\ found' = found
                /\ disc_pc' = "anchors"
    /\ anchor_i' = anchor_i + 1
    /\ UNCHANGED <<max_categories, root_fetch, anchors, disc_result>>
    /\ UNCHANGED <<getVars, est, scanVars, mono, scrape, ebay>>

\* After the loop: if not found: found.update(DEFAULT_SEED_CATEGORIES[:max_categories]).
DiscoverEndLoop ==
    /\ \/ disc_pc = "endloop"
       \/ disc_pc = "anchors" /\ anchor_i > Len(anchors)
    /\ found' = IF found = {}
                THEN Range(SliceTo(DEFAULT_SEED_CATEGORIES, max_categories))
                ELSE found
    /\ disc_pc' = "return"
    /\ UNCHANGED <<max_categories, root_fetch, anchors, anchor_i, disc_result>>
    /\ UNCHANGED <<getVars, est, scanVars, mono, scrape, ebay>>

\* return sorted(found)[:max_categories]
DiscoverReturn ==
    /\ disc_pc = "return"
    /\ disc_result' = SliceTo(SortedSeq(found), max_categories)
    /\ disc_pc' = "returned"
    /\ UNCHANGED <<max_categories, root_fetch, anchors, anchor_i, found>>
    /\ UNCHANGED <<getVars, est, scanVars, mono, scrape, ebay>>

(***************************************************************************)
(* find_opportunities                                                      *)
(***************************************************************************)
\* str.lower() on the letters the titles and keywords below use.
LowerChar(c) ==
    CASE c = "N" -> "n" [] c = "I" -> "i" [] c = "K" -> "k" [] c = "E" -> "e"
      [] c = "X" -> "x" [] OTHER -> c

ToLower(s) == [i \in DOMAIN s |-> LowerChar(s[i])]

\* Python's "needle in hay" on strings.
Contains(hay, needle) ==
    \E i \in 0..(Len(hay) - Len(needle)) : SubSeq(hay, i + 1, i + Len(needle)) = needle

\* Variant: the comparison without lower().
MatchesAvoid_CaseSensitive(title, avoid_keywords) ==
    \E i \in DOMAIN avoid_keywords : Contains(title, avoid_keywords[i])

\* any(k.lower() in p.title.lower() for k in avoid_keywords)
MatchesAvoid(title, avoid_keywords) ==
    \E i \in DOMAIN avoid_keywords : Contains(ToLower(title), ToLower(avoid_keywords[i]))

\* Variant: the division without the "and ebay_total" guard.
ScanMargin_NoZeroGuard(profit, ebay_total) ==
    IF ~IsNone(profit) /\ ~IsNone(ebay_total)
    THEN IF Len(profit) # 1 THEN [err |-> "TypeError", val |-> None]
         ELSE IF Val(ebay_total) = 0 THEN [err |-> "ZeroDivisionError", val |-> None]
         ELSE [err |-> "none", val |-> Some(Ratio(Val(profit), Val(ebay_total)))]
    ELSE [err |-> "none", val |-> None]

\* margin = (profit / ebay_total) if (profit is not None and ebay_total) else None.
\* Dividing the tuple that estimate_profit returns for a zero total would be a
\* TypeError, dividing by zero a ZeroDivisionError.
ScanMargin(profit, ebay_total) ==
    IF ~IsNone(profit) /\ ~IsNone(ebay_total) /\ Truthy(Val(ebay_total))
    THEN IF Len(profit) = 1
         THEN [err |-> "none", val |-> Some(Ratio(Val(profit), Val(ebay_total)))]
         ELSE [err |-> "TypeError", val |-> None]
    ELSE [err |-> "none", val |-> None]

\* margin >= min_margin for the fraction num/den and a percentage.
RatioGE(r, pct) ==
    IF r.den > 0 THEN r.num * 100 >= pct * r.den ELSE r.num * 100 <= pct * r.den

\* Variant: the gate without "margin >= min_margin".
Gate_SkipsMargin(profit, margin, sold_recent, c) ==
    IF IsNone(profit) \/ IsNone(margin) THEN [err |-> "none", pass |-> FALSE]
    ELSE IF ~(sold_recent >= c.min_sold_recent) THEN [err |-> "none", pass |-> FALSE]
    ELSE IF Len(profit) # 1 THEN [err |-> "TypeError", pass |-> FALSE]
    ELSE [err |-> "none", pass |-> Val(profit) >= c.min_profit]

\* Variant: the profit comparison the wrong way round.
Gate_InvertedProfit(profit, margin, sold_recent, c) ==
    IF IsNone(profit) \/ IsNone(margin) THEN [err |-> "none", pass |-> FALSE]
    ELSE IF ~(sold_recent >= c.min_sold_recent) THEN [err |-> "none", pass |-> FALSE]
    ELSE IF Len(profit) # 1 THEN [err |-> "TypeError", pass |-> FALSE]
    ELSE [err |-> "none",
          pass |-> Val(profit) <= c.min_profit /\ RatioGE(Val(margin), c.min_margin)]

\* The threshold gate; comparing a tuple with a number would be a TypeError.
Gate(profit, margin, sold_recent, c) ==
    IF IsNone(profit) \/ IsNone(margin) THEN [err |-> "none", pass |-> FALSE]
    ELSE IF ~(sold_recent >= c.min_sold_recent) THEN [err |-> "none", pass |-> FALSE]
    ELSE IF Len(profit) # 1 THEN [err |-> "TypeError", pass |-> FALSE]
    ELSE [err |-> "none",
          pass |-> Val(profit) >= c.min_profit /\ RatioGE(Val(margin), c.min_margin)]

\* From the resolved match to the gate, for one product that passed the
\* keyword filter and whose two lookups returned.
Evaluate(p, best, sold_recent, c) ==
    LET ebay_price == IF ~IsNone(best) THEN Val(best).price_gbp ELSE None
        ebay_ship  == IF ~IsNone(best) THEN Val(best).shipping_gbp ELSE 0
        e  == EstimateProfit(p.price_gbp, ebay_price, ebay_ship,
                             c.ebay_fee_rate, c.ebay_fixed_fee)
        m  == ScanMargin(e[3], e[1])
        g  == IF m.err = "none" THEN Gate(e[3], m.val, sold_recent, c)
              ELSE [err |-> m.err, pass |-> FALSE]
    IN  [err |-> g.err, pass |-> g.pass,
         ebay_total |-> e[1], fees |-> e[2], profit |-> e[3], margin |-> m.val,
         row |-> [title |-> p.title, amazon_price |-> p.price_gbp,
                  ebay_price |-> ebay_price, ebay_shipping |-> ebay_ship,
                  ebay_total_price |-> e[1], estimated_ebay_fee |-> e[2],
                  est_profit_gbp |-> e[3], est_margin |-> m.val,
                  category_url |-> p.category_url, sold_recent |-> sold_recent]]

\* Stands for the -9e9 of the sort key: below every profit of the inputs here.
NEG_SENTINEL == -2000000000

\* key=lambda r: (r.est_profit_gbp or -9e9, r.sold_recent)
SortKey(r) ==
    <<IF IsNone(r.est_profit_gbp) \/ ~Truthy(Val(r.est_profit_gbp))
      THEN NEG_SENTINEL ELSE Val(r.est_profit_gbp),
      r.sold_recent>>

KeyGreater(a, b) == a[1] > b[1] \/ (a[1] = b[1] /\ a[2] > b[2])

\* list.sort(key, reverse=True): descending and stable.
RECURSIVE InsertDesc(_, _)
InsertDesc(sorted, r) ==
    IF sorted = << >> THEN <<r>>
    ELSE IF KeyGreater(SortKey(r), SortKey(Head(sorted)))
         THEN <<r>> \o sorted
         ELSE <<Head(sorted)>> \o InsertDesc(Tail(sorted), r)

RECURSIVE SortRows(_)
SortRows(rs) ==
    IF rs = << >> THEN << >>
    ELSE InsertDesc(SortRows(SubSeq(rs, 1, Len(rs) - 1)), rs[Len(rs)])

MaxCats     == 2
MaxProducts == 3
MonoLen     == 2

\* Scraped products as scrape_amazon_bestsellers retains them: a title and a
\* present price.
TitleNike == <<"N", "i", "k", "e", " ", "c", "a", "p">>
TitleMug  == <<"m", "u", "g">>
Products  == {[title |-> TitleNike, price_gbp |-> Some(84000)],
              [title |-> TitleMug,  price_gbp |-> Some(100000)]}

\* The resolved best match: None, or an EbayResult.
EbayResults == {[price_gbp |-> Some(0),      shipping_gbp |-> 0],
                [price_gbp |-> Some(100000), shipping_gbp |-> 0],
                [price_gbp |-> Some(200000), shipping_gbp |-> 20000]}
Bests == {None} \cup {Some(r) : r \in EbayResults}
Solds == {5, 10}

\* A lookup returns a value or raises.
BestOutcomes == [raised : {FALSE}, value : Bests] \cup {[raised |-> TRUE, value |-> None]}
SoldOutcomes == [raised : {FALSE}, value : Solds] \cup {[raised |-> TRUE, value |-> 0]}

AvoidLists == {<< >>, <<<<"X", "b", "o", "x">>, <<"n", "I", "K", "E">>>>}

\* The defaults of the signature, thresholds of zero, a margin threshold that
\* decides on its own (45%), and negative thresholds.
Thresholds == {[min_profit |-> 30000,  min_margin |-> 12,   min_sold_recent |-> 10],
               [min_profit |-> 0,      min_margin |-> 0,    min_sold_recent |-> 0],
               [min_profit |-> 0,      min_margin |-> 45,   min_sold_recent |-> 5],
               [min_profit |-> -50000, min_margin |-> -100, min_sold_recent |-> 0]}

Config(cats, t, avoid, app_id) ==
    [categories |-> cats,
     min_profit |-> t.min_profit, min_margin |-> t.min_margin,
     min_sold_recent |-> t.min_sold_recent,
     ebay_fee_rate |-> 13, ebay_fixed_fee |-> 3000,
     avoid_keywords |-> avoid, EBAY_APP_ID |-> app_id]

Configs == {Config(SubSeq(DEFAULT_SEED_CATEGORIES, 1, n), t, avoid, app_id) :
              n \in 1..MaxCats, t \in Thresholds, avoid \in AvoidLists,
              app_id \in {None, Some("APPID")}}

NoError == [kind |-> "none", in |-> "none"]

IdleLast == [seen |-> FALSE, title |-> << >>, amazon_price |-> None, skipped |-> FALSE,
             best |-> None, sold_recent |-> None, ebay_total |-> None,
             profit |-> None, margin |-> None, appended |-> FALSE]

InitScanVars ==
    /\ cat = 1
    /\ examined = 0
    /\ rows = << >>
    /\ last = IdleLast
    /\ calls = {}
    /\ error = NoError
    /\ pc = "scrape"

\* products = scrape_amazon_bestsellers(cat, ...) returned its list.
ScrapeOk ==
    /\ pc = "scrape"
    /\ cat <= Len(cfg.categories)
    /\ pc' = "products"
    /\ UNCHANGED <<cfg, cat, examined, rows, last, calls, error>>
    /\ UNCHANGED <<getVars, est, discVars, mono, scrape, ebay>>

\* get() inside scrape_amazon_bestsellers raised FetchError: no handler in
\* find_opportunities, the exception leaves the function.
ScrapeFail ==
    /\ pc = "scrape"
    /\ cat <= Len(cfg.categories)
    /\ error' = [kind |-> "FetchError", in |-> "scrape_amazon_bestsellers"]
    /\ pc' = "raised"
    /\ UNCHANGED <<cfg, cat, examined, rows, last, calls>>
    /\ UNCHANGED <<getVars, est, discVars, mono, scrape, ebay>>

BestFn == IF ~IsNone(cfg.EBAY_APP_ID) THEN "ebay_find_best_price_api"
          ELSE "scrape_ebay_best_price"
\* Variant: the demand lookup always scrapes the HTML page.
SoldFn_AlwaysHtml == "ebay_sold_count_html"

SoldFn == IF ~IsNone(cfg.EBAY_APP_ID) THEN "ebay_completed_sold_count_api"
          ELSE "ebay_sold_count_html"
\* The structured-API functions call requests directly, the HTML ones get().
LookupError(fn) ==
    [kind |-> IF ~IsNone(cfg.EBAY_APP_ID) THEN "RequestException" ELSE "FetchError",
     in |-> fn]

\* One iteration of "for p in products".
ProcessProduct ==
    /\ pc = "products"
    /\ examined < MaxProducts
    /\ examined' = examined + 1
    /\ \E prod \in Products, b \in BestOutcomes, s \in SoldOutcomes :
        LET p  == [title |-> prod.title, price_gbp |-> prod.price_gbp,
                   category_url |-> cfg.categories[cat]]
            l0 == [IdleLast EXCEPT !.seen = TRUE, !.title = p.title,
                                   !.amazon_price = p.price_gbp]
            ev == Evaluate(p, b.value, s.value, cfg)
        IN  IF MatchesAvoid(p.title, cfg.avoid_keywords)
            THEN \* continue
                 /\ last' = [l0 EXCEPT !.skipped = TRUE]
                 /\ UNCHANGED <<rows, calls, error, pc>>
            ELSE IF b.raised
            THEN /\ last' = l0
                 /\ calls' = calls \cup {BestFn}
                 /\ error' = LookupError(BestFn)
                 /\ pc' = "raised"
                 /\ rows' = rows
            ELSE IF s.raised
            THEN /\ last' = [l0 EXCEPT !.best = b.value]
                 /\ calls' = calls \cup {BestFn, SoldFn}
                 /\ error' = LookupError(SoldFn)
                 /\ pc' = "raised"
                 /\ rows' = rows
            ELSE /\ calls' = calls \cup {BestFn, SoldFn}
                 /\ last' = [l0 EXCEPT !.best = b.value, !.sold_recent = Some(s.value),
                                       !.ebay_total = ev.ebay_total, !.profit = ev.profit,
                                       !.margin = ev.margin,
                                       !.appended = (ev.err = "none" /\ ev.pass)]
                 /\ IF ev.err # "none"
                    THEN /\ error' = [kind |-> ev.err, in |-> "find_opportunities"]
                         /\ pc' = "raised"
                         /\ rows' = rows
                    ELSE /\ rows' = IF ev.pass THEN Append(rows, ev.row) ELSE rows
                         /\ UNCHANGED <<error, pc>>
    /\ UNCHANGED <<cfg, cat>>
    /\ UNCHANGED <<getVars, est, discVars, mono, scrape, ebay>>

\* The product list of this category is exhausted: next category.
EndCategory ==
    /\ pc = "products"
    /\ cat' = cat + 1
    /\ pc' = "scrape"
    /\ UNCHANGED <<cfg, examined, rows, last, calls, error>>
    /\ UNCHANGED <<getVars, est, discVars, mono, scrape, ebay>>

\* After the last category: rows.sort(...); return rows.
Finish ==
    /\ pc = "scrape"
    /\ cat > Len(cfg.categories)
    /\ rows' = SortRows(rows)
    /\ pc' = "returned"
    /\ UNCHANGED <<cfg, cat, examined, last, calls, error>>
    /\ UNCHANGED <<getVars, est, discVars, mono, scrape, ebay>>

(***************************************************************************)
(* find_opportunities as a function of what the scrapes and lookups return *)
(***************************************************************************)
\* The whole call on a list of (product, best match, sold count) whose
\* fetches all succeeded.
RECURSIVE Accumulate(_, _)
Accumulate(inputs, c) ==
    IF inputs = << >> THEN << >>
    ELSE LET before == Accumulate(SubSeq(inputs, 1, Len(inputs) - 1), c)
             x  == inputs[Len(inputs)]
             p  == [title |-> x.prod.title, price_gbp |-> x.prod.price_gbp,
                    category_url |-> c.categories[1]]
             ev == Evaluate(p, x.best, x.sold, c)
         IN  IF MatchesAvoid(p.title, c.avoid_keywords) THEN before
             ELSE IF ev.err = "none" /\ ev.pass THEN Append(before, ev.row)
             ELSE before

FindOpportunities(inputs, c) == SortRows(Accumulate(inputs, c))

ScanInputs == [prod : Products, best : Bests, sold : Solds]

ThresholdSpace == [min_profit : {-50000, 0, 30000}, min_margin : {-100, 0, 12, 45},
                   min_sold_recent : {0, 10}]

\* t2 is t1 with exactly one threshold raised.
OneRaised(t1, t2) ==
    \/ t2.min_profit > t1.min_profit /\ t2.min_margin = t1.min_margin
         /\ t2.min_sold_recent = t1.min_sold_recent
    \/ t2.min_profit = t1.min_profit /\ t2.min_margin > t1.min_margin
         /\ t2.min_sold_recent = t1.min_sold_recent
    \/ t2.min_profit = t1.min_profit /\ t2.min_margin = t1.min_margin
         /\ t2.min_sold_recent > t1.min_sold_recent

IdleMono == [inputs |-> << >>, first |-> Config(<<5>>, [min_profit |-> 0, min_margin |-> 0, min_sold_recent |-> 0], << >>, None),
             second |-> Config(<<5>>, [min_profit |-> 0, min_margin |-> 0, min_sold_recent |-> 0], << >>, None),
             ran |-> FALSE, rows1 |-> << >>, rows2 |-> << >>]

\* Both runs, over the same inputs.
RunBoth ==
    /\ ~mono.ran
    /\ mono' = [mono EXCEPT !.ran = TRUE,
                            !.rows1 = FindOpportunities(mono.inputs, mono.first),
                            !.rows2 = FindOpportunities(mono.inputs, mono.second)]
    /\ UNCHANGED <<getVars, est, discVars, scanVars, scrape, ebay>>

(***************************************************************************)
(* scrape_amazon_bestsellers                                               *)
(***************************************************************************)
MaxCards    == 2
MaxItemsArg == 2

\* A card of a listing page, by what parse_amazon_bestseller_card finds in
\* it: a link or none, a title or the empty string, a parsed price or None.
Cards == {[link |-> FALSE, title |-> TitleMug,  price_gbp |-> Some(100000)],
          [link |-> TRUE,  title |-> << >>,     price_gbp |-> Some(100000)],
          [link |-> TRUE,  title |-> TitleMug,  price_gbp |-> None],
          [link |-> TRUE,  title |-> TitleMug,  price_gbp |-> Some(100000)],
          [link |-> TRUE,  title |-> TitleNike, price_gbp |-> Some(84000)]}

\* parse_amazon_bestseller_card: None without a link, else the product.
ParseCard(card) ==
    IF ~card.link THEN None
    ELSE Some([title |-> card.title, price_gbp |-> card.price_gbp])

\* if prod and prod.price_gbp is not None and prod.title
Retained(prod) ==
    ~IsNone(prod) /\ ~IsNone(Val(prod).price_gbp) /\ Val(prod).title # << >>

PAGES == <<1, 2, 3>>

InitScrape(n) == [max_items |-> n, page |-> 1, cards |-> << >>, card_i |-> 1,
                  out |-> << >>, fetched |-> << >>, seen |-> 0, pc |-> "page"]
IdleScrape == InitScrape(0)

\* resp = get(url) for the next page returned; cards = soup.select(...).
PageFetchOk ==
    /\ scrape.pc = "page"
    /\ scrape.page <= Len(PAGES)
    /\ \E cs \in SeqsUpTo(Cards, MaxCards) :
        scrape' = [scrape EXCEPT !.fetched = Append(@, PAGES[scrape.page]),
                                 !.cards = cs, !.card_i = 1, !.pc = "cards"]
    /\ UNCHANGED <<getVars, est, discVars, scanVars, mono, ebay>>

\* get(url) raised FetchError: it leaves the function.
PageFetchFail ==
    /\ scrape.pc = "page"
    /\ scrape.page <= Len(PAGES)
    /\ scrape' = [scrape EXCEPT !.fetched = Append(@, PAGES[scrape.page]),
                                !.pc = "raised"]
    /\ UNCHANGED <<getVars, est, discVars, scanVars, mono, ebay>>

\* One iteration of "for c in cards": append a retained product, and return
\* once len(out) >= max_items.
PageCard ==
    /\ scrape.pc = "cards"
    /\ scrape.card_i <= Len(scrape.cards)
    /\ LET prod == ParseCard(scrape.cards[scrape.card_i])
           out1 == IF Retained(prod) THEN Append(scrape.out, Val(prod)) ELSE scrape.out
       IN  scrape' = [scrape EXCEPT !.out = out1, !.seen = @ + 1, !.card_i = @ + 1,
                                    !.pc = IF Retained(prod) /\ Len(out1) >= scrape.max_items
                                           THEN "returned" ELSE "cards"]
    /\ UNCHANGED <<getVars, est, discVars, scanVars, mono, ebay>>

\* The cards of this page are exhausted: next page.
PageNext ==
    /\ scrape.pc = "cards"
    /\ scrape.card_i > Len(scrape.cards)
    /\ scrape' = [scrape EXCEPT !.page = @ + 1, !.pc = "page"]
    /\ UNCHANGED <<getVars, est, discVars, scanVars, mono, ebay>>

\* After page 3: return out.
PagesDone ==
    /\ scrape.pc = "page"
    /\ scrape.page > Len(PAGES)
    /\ scrape' = [scrape EXCEPT !.pc = "returned"]
    /\ UNCHANGED <<getVars, est, discVars, scanVars, mono, ebay>>

(***************************************************************************)
(* scrape_ebay_best_price                                                  *)
(***************************************************************************)
MaxResults == 2

\* Stands for the 9e9 of the comparison: above every total of the inputs here.
POS_SENTINEL == 2000000000

\* A search result, by what parse_price_gbp makes of its price and shipping
\* texts.
Items == [price : {None, Some(0), Some(100000), Some(200000)},
          shipping : {None, Some(20000)}]

\* Python's "x or d" on an optional number.
OrElse(x, d) == IF IsNone(x) \/ ~Truthy(Val(x)) THEN d ELSE Val(x)

\* best after the first k items of the loop; url stands for the item's link.
RECURSIVE BestAfter(_, _)
BestAfter(items, k) ==
    IF k = 0 THEN None
    ELSE LET best     == BestAfter(items, k - 1)
             price    == items[k].price
             shipping == OrElse(items[k].shipping, 0)
         IN  IF IsNone(price) THEN best
             ELSE IF IsNone(best)
                     \/ Val(price) + shipping
                          < OrElse(Val(best).price_gbp, POS_SENTINEL)
                              + OrElse(Some(Val(best).shipping_gbp), 0)
                  THEN Some([price_gbp |-> price, shipping_gbp |-> shipping, url |-> k])
                  ELSE best

\* items = soup.select("li.s-item")[:max_results], then the loop.
ScrapeEbayBestPrice(items, max_results) ==
    BestAfter(SliceTo(items, max_results), Len(SliceTo(items, max_results)))

IdleEbay == [items |-> << >>, max_results |-> 0, pc |-> "fetch", out |-> None]

\* get(url) returned the search page.
EbayFetchOk ==
    /\ ebay.pc = "fetch"
    /\ ebay' = [ebay EXCEPT !.pc = "returned",
                            !.out = ScrapeEbayBestPrice(ebay.items, ebay.max_results)]
    /\ UNCHANGED <<getVars, est, discVars, scanVars, mono, scrape>>

\* get(url) raised FetchError.
EbayFetchFail ==
    /\ ebay.pc = "fetch"
    /\ ebay' = [ebay EXCEPT !.pc = "raised"]
    /\ UNCHANGED <<getVars, est, discVars, scanVars, mono, scrape>>

(***************************************************************************)
(* Specifications                                                          *)
(***************************************************************************)
IdleGet  == InitGetVars
IdleDisc == InitDiscVars /\ max_categories = 0
IdleScan == InitScanVars /\ cfg = IdleMono.first

\* get(url) against every sequence of per-attempt outcomes.
InitGet ==
    /\ InitGetVars /\ est = IdleEst /\ IdleDisc /\ IdleScan /\ mono = IdleMono
    /\ scrape = IdleScrape /\ ebay = IdleEbay
NextGet == GetAttempt \/ GetExhausted
SpecGet == InitGet /\ [][NextGet]_vars

\* estimate_profit on every drawn argument list.
InitEstimate ==
    /\ \E a \in EstInputs : est = [args |-> a, called |-> FALSE, out |-> None]
    /\ IdleGet /\ IdleDisc /\ IdleScan /\ mono = IdleMono
    /\ scrape = IdleScrape /\ ebay = IdleEbay
NextEstimate == Estimate
SpecEstimate == InitEstimate /\ [][NextEstimate]_vars

\* discover_best_seller_categories(max_categories).
MaxCategoriesValues == (0..MaxCategoriesArg) \cup {Len(DEFAULT_SEED_CATEGORIES) + 2}
InitDiscover ==
    /\ max_categories \in MaxCategoriesValues
    /\ InitDiscVars
    /\ IdleGet /\ est = IdleEst /\ IdleScan /\ mono = IdleMono
    /\ scrape = IdleScrape /\ ebay = IdleEbay
NextDiscover == DiscoverFetchOk \/ DiscoverFetchFail \/ DiscoverAnchor
                  \/ DiscoverEndLoop \/ DiscoverReturn
SpecDiscover == InitDiscover /\ [][NextDiscover]_vars

\* One call of find_opportunities.
Init ==
    /\ cfg \in Configs
    /\ InitScanVars
    /\ IdleGet /\ est = IdleEst /\ IdleDisc /\ mono = IdleMono
    /\ scrape = IdleScrape /\ ebay = IdleEbay
Next == ScrapeOk \/ ScrapeFail \/ ProcessProduct \/ EndCategory \/ Finish
Spec == Init /\ [][Next]_vars

\* scrape_amazon_bestsellers(category_url, max_items).
InitScrapeSpec ==
    /\ \E n \in 0..MaxItemsArg : scrape = InitScrape(n)
    /\ IdleGet /\ est = IdleEst /\ IdleDisc /\ IdleScan /\ mono = IdleMono
    /\ ebay = IdleEbay
NextScrape == PageFetchOk \/ PageFetchFail \/ PageCard \/ PageNext \/ PagesDone
SpecScrape == InitScrapeSpec /\ [][NextScrape]_vars

\* scrape_ebay_best_price(query, max_results).
InitEbay ==
    /\ \E its \in SeqsUpTo(Items, MaxResults + 1), n \in 0..MaxResults :
        ebay = [items |-> its, max_results |-> n, pc |-> "fetch", out |-> None]
    /\ IdleGet /\ est = IdleEst /\ IdleDisc /\ IdleScan /\ mono = IdleMono
    /\ scrape = IdleScrape
NextEbay == EbayFetchOk \/ EbayFetchFail
SpecEbay == InitEbay /\ [][NextEbay]_vars

\* Two calls of find_opportunities on the same inputs, one threshold raised.
InitMono ==
    /\ \E ins \in SeqsUpTo(ScanInputs, MonoLen), t1 \in ThresholdSpace,
          t2 \in ThresholdSpace, avoid \in AvoidLists :
        /\ OneRaised(t1, t2)
        /\ mono = [inputs |-> ins, first |-> Config(<<5>>, t1, avoid, None),
                   second |-> Config(<<5>>, t2, avoid, None),
                   ran |-> FALSE, rows1 |-> << >>, rows2 |-> << >>]
    /\ IdleGet /\ est = IdleEst /\ IdleDisc /\ IdleScan /\ scrape = IdleScrape /\ ebay = IdleEbay
NextMono == RunBoth
SpecMono == InitMono /\ [][NextMono]_vars

(***************************************************************************)
(* Properties                                                              *)
(***************************************************************************)

\* C1: get never issues more than MAX_RETRIES requests; it raises FetchError
\* only after exactly MAX_RETRIES requests; it returns only from an attempt
\* that did not fail; and after MAX_RETRIES failed attempts nothing but the
\* raise is left.
C1_RetryBound ==
    /\ requests <= MAX_RETRIES
    /\ (get_pc = "raised" => requests = MAX_RETRIES)
    /\ (get_pc = "returned" => last_failure.attempt # requests)
    /\ (get_pc = "loop" /\ requests = MAX_RETRIES => attempt > MAX_RETRIES)

\* C1 witness: six failed attempts of mixed kinds, then FetchError.
C1_Witness ==
    /\ get_pc = "raised"
    /\ requests = MAX_RETRIES
    /\ last_failure.status = 403
    /\ last_exc.type = "HTTPError"

\* C2: the FetchError raised on exhaustion carries the failure reason of the
\* last failed attempt.
C2_CarriesLastReason ==
    get_pc = "raised" =>
        /\ last_exc.attempt = last_failure.attempt
        /\ last_exc.status = last_failure.status
        /\ (last_failure.exc # "none" => last_exc.type = last_failure.exc)

IsNumber(x) == Len(x) = 1

\* A step of the product loop in which both lookups returned.
Evaluated == examined' = examined + 1 /\ ~last'.skipped /\ ~IsNone(last'.sold_recent)

\* C3: every accumulated or returned row has a present profit and margin and
\* meets the three thresholds; a product whose match is absent has absent
\* profit and margin, adds no row and raises nothing.
C3_ThresholdGate ==
    /\ [](\A i \in DOMAIN rows :
            /\ IsNumber(rows[i].est_profit_gbp)
            /\ IsNumber(rows[i].est_margin)
            /\ Val(rows[i].est_profit_gbp) >= cfg.min_profit
            /\ Val(rows[i].est_margin).den > 0
            /\ Val(rows[i].est_margin).num * 100 >= cfg.min_margin * Val(rows[i].est_margin).den
            /\ rows[i].sold_recent >= cfg.min_sold_recent)
    /\ [][Evaluated /\ IsNone(last'.best)
            => /\ IsNone(last'.profit) /\ IsNone(last'.margin)
               /\ rows' = rows /\ error' = NoError /\ pc' = "products"]_vars

\* C3 witness: a row was accumulated and the product just examined had no
\* match.
C3_Witness ==
    /\ Len(rows) >= 1
    /\ last.seen /\ ~last.skipped /\ ~IsNone(last.sold_recent) /\ IsNone(last.best)

\* C4: the returned sequence is non-increasing in profit and, among rows of
\* equal profit, non-increasing in sold_recent.
C4_Ranked ==
    pc = "returned" =>
        \A i, j \in DOMAIN rows :
            i < j =>
                /\ Val(rows[i].est_profit_gbp) >= Val(rows[j].est_profit_gbp)
                /\ (Val(rows[i].est_profit_gbp) = Val(rows[j].est_profit_gbp)
                      => rows[i].sold_recent >= rows[j].sold_recent)

\* Two characters that are equal up to case.
CasePairs == {<<"N", "n">>, <<"I", "i">>, <<"K", "k">>, <<"E", "e">>, <<"X", "x">>}
SameLetter(a, b) == a = b \/ <<a, b>> \in CasePairs \/ <<b, a>> \in CasePairs

\* kw occurs in title at some offset, compared letter by letter up to case.
OccursIgnoringCase(title, kw) ==
    \E off \in 0..(Len(title) - Len(kw)) :
        \A k \in 1..Len(kw) : SameLetter(title[off + k], kw[k])

\* C5: no row has a title in which an avoid-keyword occurs, case ignored.
C5_KeywordExclusion ==
    \A i \in DOMAIN rows : \A k \in DOMAIN cfg.avoid_keywords :
        ~OccursIgnoringCase(rows[i].title, cfg.avoid_keywords[k])

\* C5 witness: a product whose title holds a keyword in another case was
\* dropped, beside rows that were kept.
C5_Witness ==
    /\ last.seen /\ last.skipped
    /\ last.title = TitleNike
    /\ Len(rows) >= 1
    /\ pc = "returned"

\* C6: with both prices present the outputs are the numbers total, fee and
\* profit of the formula; with a price absent all three are absent.
C6_EstimateResult ==
    est.called =>
        LET a == est.args IN
        IF IsNone(a.amazon_price) \/ IsNone(a.ebay_price)
        THEN est.out = <<None, None, None>>
        ELSE LET total == Val(a.ebay_price) + a.ebay_shipping IN
             /\ est.out[1] = Some(total)
             /\ IsNumber(est.out[2])
             /\ Val(est.out[2]) * 100 = total * a.fee_rate + a.fixed_fee * 100
             /\ IsNumber(est.out[3])
             /\ Val(est.out[3]) * 100
                  = total * (100 - a.fee_rate) - a.fixed_fee * 100
                      - Val(a.amazon_price) * 100

\* C7: a product whose resolved total is 0 gets an absent margin, adds no row
\* and raises nothing.
C7_ZeroTotalGuard ==
    [][Evaluated /\ last'.ebay_total = Some(0)
         => /\ IsNone(last'.margin)
            /\ ~last'.appended /\ rows' = rows
            /\ error' = NoError /\ pc' = "products"]_vars

\* C7 witness: a product with target price 0 and shipping 0 was evaluated.
C7_Witness ==
    /\ last.seen /\ ~last.skipped /\ ~IsNone(last.sold_recent)
    /\ last.ebay_total = Some(0)
    /\ ~IsNone(last.amazon_price)
    /\ pc = "products"

Count(seq, x) == Cardinality({i \in DOMAIN seq : seq[i] = x})

\* C8: with one threshold raised, every row of the second run is a row of the
\* first (counted with multiplicity), so the count does not grow.
C8_Monotone ==
    mono.ran =>
        /\ \A i \in DOMAIN mono.rows2 :
               Count(mono.rows2, mono.rows2[i]) <= Count(mono.rows1, mono.rows2[i])
        /\ Len(mono.rows2) <= Len(mono.rows1)

\* C8 witness: the raised threshold removed a row and kept another.
C8_Witness ==
    /\ mono.ran
    /\ Len(mono.rows2) >= 1
    /\ Len(mono.rows2) < Len(mono.rows1)

\* C9: a FetchError from one category's listing page does not end the scan.
C9_CategoryIsolation ==
    error.in = "scrape_amazon_bestsellers" => pc # "raised"

AllSeeds == {DEFAULT_SEED_CATEGORIES[i] :
               i \in 1..Min(max_categories, Len(DEFAULT_SEED_CATEGORIES))}

\* C10: no FetchError leaves the function; the result has at most
\* max_categories URLs; after a failed root fetch, or a page without a
\* category anchor, it is the first max_categories seeds in ascending order.
C10_FailsSoft ==
    /\ disc_pc # "raised"
    /\ disc_pc = "returned" =>
         /\ Len(disc_result) <= max_categories
         /\ (root_fetch = "FetchError" \/ \A i \in DOMAIN anchors : anchors[i].deep)
              => /\ Range(disc_result) = AllSeeds
                 /\ Len(disc_result) = Cardinality(AllSeeds)
                 /\ \A i, j \in DOMAIN disc_result :
                        i < j => disc_result[i] < disc_result[j]

\* C10 witness: the root fetch failed and two seeds came back, sorted.
C10_Witness ==
    /\ disc_pc = "returned"
    /\ root_fetch = "FetchError"
    /\ max_categories = 2
    /\ disc_result = <<5, 11>>

\* The category URLs of the page, and those among the first n distinct ones
\* in page order.
MatchingSegs == {anchors[i].seg : i \in {j \in DOMAIN anchors : ~anchors[j].deep}}
FirstEncountered(n) ==
    {anchors[i].seg : i \in {j \in DOMAIN anchors :
        /\ ~anchors[j].deep
        /\ Cardinality({anchors[k].seg : k \in {m \in 1..(j - 1) : ~anchors[m].deep}}) < n}}
Ascending(seq) == \A i, j \in DOMAIN seq : i < j => seq[i] < seq[j]

\* C11 as stated: with more than max_categories distinct category URLs on the
\* page, the result is the max_categories smallest of all of them.
C11_SmallestOfAll ==
    (disc_pc = "returned" /\ root_fetch = "ok"
       /\ Cardinality(MatchingSegs) > max_categories)
    => /\ Len(disc_result) = max_categories
       /\ Ascending(disc_result)
       /\ \A u \in Range(disc_result), w \in MatchingSegs \ Range(disc_result) : u < w

\* C11 amended: with more than max_categories distinct category URLs on the
\* page, the result is the first max_categories distinct ones in page order,
\* in ascending order.
C11_FirstEncounteredSorted ==
    (disc_pc = "returned" /\ root_fetch = "ok"
       /\ Cardinality(MatchingSegs) > max_categories)
    => /\ Len(disc_result) = max_categories
       /\ Ascending(disc_result)
       /\ Range(disc_result) = FirstEncountered(max_categories)

\* C11 witness: three category URLs in the page order 13, 2, 6 and
\* max_categories = 2: the result is <<2, 13>>, not <<2, 6>>.
C11_Witness ==
    /\ disc_pc = "returned"
    /\ max_categories = 2
    /\ Len(anchors) = 3
    /\ anchors[1] = [seg |-> 13, deep |-> FALSE]
    /\ anchors[2] = [seg |-> 2, deep |-> FALSE]
    /\ anchors[3] = [seg |-> 6, deep |-> FALSE]
    /\ disc_result = <<2, 13>>

ApiFns  == {"ebay_find_best_price_api", "ebay_completed_sold_count_api"}
HtmlFns == {"scrape_ebay_best_price", "ebay_sold_count_html"}

\* C14: with EBAY_APP_ID present every lookup of the scan is a structured-API
\* call, with it absent every lookup is an HTML fetch; each step of the product
\* loop adds calls of one strategy only.
C14_OneStrategy ==
    /\ [](IF ~IsNone(cfg.EBAY_APP_ID) THEN calls \subseteq ApiFns
          ELSE calls \subseteq HtmlFns)
    /\ [][(calls' \ calls) \subseteq ApiFns \/ (calls' \ calls) \subseteq HtmlFns]_vars

\* C14 witness: a scan with the credential returned rows after both API
\* lookups ran.
C14_Witness ==
    /\ ~IsNone(cfg.EBAY_APP_ID)
    /\ calls = ApiFns
    /\ Len(rows) >= 2
    /\ pc = "returned"

RECURSIVE SumSeq(_)
SumSeq(seq) == IF seq = << >> THEN 0 ELSE Head(seq) + SumSeq(Tail(seq))

\* C16: the k-th failed attempt is followed by exactly one delay of
\* BACKOFF_BASE * k, a returning attempt by none; exhausting MAX_RETRIES
\* attempts waits BACKOFF_BASE * N * (N + 1) / 2 in total.
C16_LinearBackoff ==
    /\ get_pc \in {"loop", "raised"}
         => delays = [k \in 1..(attempt - 1) |-> BACKOFF_BASE * k]
    /\ get_pc = "returned"
         => delays = [k \in 1..(requests - 1) |-> BACKOFF_BASE * k]
    /\ get_pc = "raised"
         => SumSeq(delays) = (BACKOFF_BASE * MAX_RETRIES * (MAX_RETRIES + 1)) \div 2

\* C12: for every max_items >= 0, scrape_amazon_bestsellers returns at most
\* max_items items, and every returned item has a non-empty title and a
\* present source price.
C12_AtMostMaxItems ==
    scrape.pc = "returned" =>
        /\ Len(scrape.out) <= scrape.max_items
        /\ \A i \in DOMAIN scrape.out :
            scrape.out[i].title # << >> /\ ~IsNone(scrape.out[i].price_gbp)

IsPrefix(s, t) == Len(s) <= Len(t) /\ \A i \in DOMAIN s : s[i] = t[i]

\* C15: pages are requested in the order 1, 2, 3 and at most three times; a
\* page after the first is requested only while fewer than max_items items
\* are accumulated; once max_items items are accumulated no page is fetched
\* and no card is examined any more.
C15_PageOrderAndEarlyStop ==
    /\ [](IsPrefix(scrape.fetched, PAGES))
    /\ [][Len(scrape.fetched) >= 1 =>
            /\ scrape'.fetched # scrape.fetched => Len(scrape.out) < scrape.max_items
            /\ Len(scrape.out) >= scrape.max_items
                  => scrape'.fetched = scrape.fetched /\ scrape'.seen = scrape.seen]_vars

\* The results of the page that the loop looks at.
Scanned == SliceTo(ebay.items, ebay.max_results)
Parseable == {i \in DOMAIN Scanned : ~IsNone(Scanned[i].price)}
Total(i) == Val(Scanned[i].price)
              + (IF IsNone(Scanned[i].shipping) THEN 0 ELSE Val(Scanned[i].shipping))
Cheapest == CHOOSE i \in Parseable :
                \A j \in Parseable : Total(i) < Total(j) \/ (Total(i) = Total(j) /\ i <= j)

\* C13: the HTML search returns the result with the lowest price + shipping
\* among those whose price parses (a price of 0 included), the earliest one
\* on a tie, and nothing when no price parses.
C13_LowestTotal ==
    ebay.pc = "returned" =>
        IF Parseable = {} THEN IsNone(ebay.out)
        ELSE /\ ~IsNone(ebay.out)
             /\ Val(ebay.out).url = Cheapest
             /\ Val(ebay.out).price_gbp = Scanned[Cheapest].price
             /\ Val(ebay.out).shipping_gbp = Total(Cheapest) - Val(Scanned[Cheapest].price)

====
